---- MODULE Spec2Model ----
(***************************************************************************)
(* Synchronization-and-ingestion pipeline of KineticAI.                    *)
(*                                                                         *)
(*   external_data_gateway/src/rate_limiter.py   RateLimiter.acquire       *)
(*   external_data_gateway/src/sync.py           SyncManager               *)
(*   external_data_gateway/src/main.py           trigger / poll endpoints  *)
(*   data_ingestion/src/data_ingestion/main.py   start_upload and the      *)
(*                                               sub-task wrappers         *)
(*                                                                         *)
(* The status store (Redis) is modelled by the operations the code calls   *)
(* on it: get/set of the JSON string stored under a key, the hash field    *)
(* "completed_tasks" that hincrby/hget address under the same key, and the *)
(* integer counters that incr/expire address.  Every store operation may   *)
(* raise (store unavailable) while the fault budget lasts.                 *)
(***************************************************************************)
EXTENDS Integers, Sequences, FiniteSets, TLC

(***************************************************************************)
(* Bounds of the model.                                                    *)
(***************************************************************************)
MaxTime == 3
MaxCalls == 4
MaxCallers == 2
MaxLimit == 2
MaxPeriod == 2
MaxItems == 2
MaxRequests == 1
MaxUploadLen == 2
MaxStoreFaults == 1
MaxActivities == 4
MaxGear == 1
MaxRuns == 2
MaxPolls == 2
MaxGearEntries == 2

Callers == 1..MaxCallers
\* Activity ids: the ids uploaded directly and the ids a sync run forwards.
Items == 1..(IF MaxItems > MaxActivities THEN MaxItems ELSE MaxActivities)
Requests == 1..MaxRequests
Runs == 1..MaxRuns

VARIABLES
    \* ---- rate limiter (rate_limiter.py) ----
    requests,      \* settings.RATE_LIMIT_REQUESTS
    period,        \* settings.RATE_LIMIT_PERIOD
    clock,         \* time.time(), in whole seconds
    windows,       \* store: window second -> [count, expireAt]; count 0 = key absent
    acq,           \* per caller: position inside acquire
    calls,         \* log of finished acquire calls, in pipeline-execution order
    \* ---- ingestion boundary (data_ingestion/main.py) ----
    activityStore, \* store: "activity:<id>" -> the JSON record last SET
    taskCounter,   \* store: hash field "completed_tasks" of "activity:<id>"
    batchStore,    \* store: "batch:<id>" -> the JSON record last SET
    upl,           \* per upload request: position of start_upload and of its
                   \* background-task runner
    outcome,       \* per item and sub-task: what became of the sub-task
    faults,        \* store failures that may still happen
    \* ---- sync orchestration (sync.py, main.py) ----
    syncStore,     \* store: "sync:status:<user>" -> the JSON record last SET
    lastWrite,     \* the update_status call that produced syncStore: which
                   \* write of which run, its arguments and what it returned
    run,           \* per trigger request: its response and the position of
                   \* the start_sync it scheduled
    lastCall,      \* the provider call that finished last
    limits,        \* the scope explored
    \* ---- status polls (both services) ----
    poll,          \* the responses of the last two polls of a client
    \* ---- provider mapping (sync.py fetch_gear) ----
    gearCall       \* a gear response of the provider and the list
                   \* fetch_gear made of it

rateVars == <<requests, period, clock, windows, acq, calls>>
ingVars == <<activityStore, taskCounter, batchStore, upl, outcome>>

\* What no step of a sync run writes.
pollVars == <<limits, poll, gearCall>>

syncVars == <<syncStore, lastWrite, run, lastCall, limits, poll, gearCall>>

vars == <<requests, period, clock, windows, acq, calls,
          activityStore, taskCounter, batchStore, upl, outcome, faults,
          syncStore, lastWrite, run, lastCall, limits, poll, gearCall>>

(***************************************************************************)
(* RateLimiter                                                             *)
(***************************************************************************)
NoWindow == [count |-> 0, expireAt |-> 0]

IdleAcq == [pc |-> "idle", now |-> 0, id |-> 0, seen |-> {}]

InFlightIds == {acq[p].id : p \in {q \in Callers : acq[q].pc = "keyed"}}

StartedCalls == Len(calls) + Cardinality(InFlightIds)

\* window_key = f"{key}:{int(now)}": the key names the whole second of `now`.
WindowKey(now) == now

InitRate ==
    /\ clock = 0
    /\ windows = [s \in 0..(MaxTime + 1) |-> NoWindow]
    /\ acq = [p \in Callers |-> IdleAcq]
    /\ calls = <<>>

\* Time passes; the store drops the counters whose expiry has been reached.
Tick ==
    /\ clock < MaxTime
    /\ clock' = clock + 1
    /\ windows' = [s \in DOMAIN windows |->
                     IF windows[s].count > 0 /\ windows[s].expireAt <= clock + 1
                     THEN NoWindow ELSE windows[s]]
    /\ UNCHANGED <<requests, period, acq, calls, ingVars, faults, syncVars>>

\* acquire, lines 15-17: the caller reads the clock and names its window key.
AcquireBegin(p) ==
    /\ acq[p].pc = "idle"
    /\ StartedCalls < MaxCalls
    /\ LET id == StartedCalls + 1
       IN acq' = [q \in Callers |->
                    IF q = p
                    THEN [pc |-> "keyed", now |-> clock, id |-> id, seen |-> InFlightIds]
                    ELSE IF acq[q].pc = "keyed"
                         THEN [acq[q] EXCEPT !.seen = @ \cup {id}]
                         ELSE acq[q]]
    /\ UNCHANGED <<requests, period, clock, windows, calls, ingVars, faults, syncVars>>

\* A counter that only admitted calls advance.
IncrResultAdmittedOnly(key) ==
    IF windows[key].count < requests
    THEN windows[key].count + 1
    ELSE windows[key].count

\* The value INCR returns for the window key.
IncrResult(key) == windows[key].count + 1

\* acquire's verdict on the value the pipeline returned (lines 23-25).
Allowed(current_requests) == current_requests <= requests

\* acquire, lines 19-25: pipe.execute() runs INCR and EXPIRE as one atomic
\* unit; the caller compares the incremented value with the limit.
AcquireExecute(p) ==
    /\ acq[p].pc = "keyed"
    /\ LET key == WindowKey(acq[p].now)
           cur == IncrResult(key)
       IN /\ windows' = [windows EXCEPT ![key] =
                            [count |-> cur, expireAt |-> clock + period]]
          /\ calls' = Append(calls, [id |-> acq[p].id, t |-> acq[p].now,
                                     at |-> clock, key |-> key, count |-> cur,
                                     ok |-> Allowed(cur), seen |-> acq[p].seen])
    /\ acq' = [acq EXCEPT ![p] = IdleAcq]
    /\ UNCHANGED <<requests, period, clock, ingVars, faults, syncVars>>

NextRate ==
    \/ Tick
    \/ \E p \in Callers : AcquireBegin(p)
    \/ \E p \in Callers : AcquireExecute(p)

(***************************************************************************)
(* Ingestion boundary: start_upload and the sub-task wrappers              *)
(***************************************************************************)
\* num_tasks = 3  (create_activity, store_laps, store_streams)
NUM_TASKS == 3

TaskNames == <<"create_activity", "store_laps", "store_streams">>

\* error_message = f"Error in {task_func.__name__}: {str(e)}"
ErrorIn(k) ==
    CASE k = 1 -> "Error in create_activity"
      [] k = 2 -> "Error in store_laps"
      [] OTHER -> "Error in store_streams"

NoActivity ==
    [status |-> "absent", completed_tasks |-> 0,
     error_message |-> "none", error |-> "none"]

\* ActivityRecord that drops the error message.
ActivityRecordNoMessage(st, msg) ==
    [status |-> st, completed_tasks |-> 0, error_message |-> "none", error |-> "none"]

\* ActivityStatusResponse(activity_id, status, error_message, completed_tasks=0)
ActivityRecord(st, msg) ==
    [status |-> st, completed_tasks |-> 0, error_message |-> msg, error |-> "none"]

\* UploadStatusResponse(batch_id, PENDING, total, processed 0, failed 0)
BatchRecord(n) ==
    [status |-> "pending", total_activities |-> n,
     processed_activities |-> 0, failed_activities |-> 0]

NoBatch ==
    [status |-> "absent", total_activities |-> 0,
     processed_activities |-> 0, failed_activities |-> 0]

\* BatchAtEntry with the batch record initialised before the request is
\* validated.
BatchBeforeValidation(shape, n) == BatchRecord(n)

\* start_upload, lines 76-106: what "batch:<id>" holds once the checks of
\* the request's shape have run; the record is created only after them.
BatchAtEntry(shape, n) == IF shape = "ok" THEN BatchRecord(n) ELSE NoBatch

\* update_activity_status, lines 258-262: the record written back when the
\* key holds `cur`.
UpdatedActivity(cur, st, err) ==
    [cur EXCEPT !.status = st,
                !.error = IF err # "none" THEN err ELSE @]

\* increment_completed_tasks, lines 274-276: the record written back; `cur`
\* is the record read before the pipeline ran, `completed` the value hget
\* returned.
IncrementedActivity(cur, completed, num_tasks) ==
    [cur EXCEPT !.status = IF completed = num_tasks THEN "completed" ELSE @]

\* WrapperBranch without the "only if currently pending" guard.
WrapperBranchUnguarded(st) ==
    IF st \in {"pending", "failed"} THEN "promote" ELSE "run"

\* process_with_status, lines 293-301: what the wrapper does on the status
\* it read.
WrapperBranch(st) ==
    IF st = "pending" THEN "promote"
    ELSE IF st = "failed" THEN "skip"
    ELSE "run"

\* BatchKept for a boundary that folds each finished step into the batch
\* counters.
BatchFolded(r) ==
    [batchStore[r] EXCEPT !.processed_activities = @ + 1]

\* start_upload after line 106 and process_with_status, lines 279-332: no
\* statement writes "batch:<id>"; the key holds what it held.
BatchKept(r) == batchStore[r]

IdleUpload ==
    [pc |-> "new", code |-> 0, shape |-> "none", items |-> <<>>, corrupt |-> {},
     idx |-> 0, queue |-> <<>>, tpc |-> "check", terr |-> "none"]

SeqRange(s) == {s[n] : n \in DOMAIN s}

Submitted == UNION {SeqRange(upl[r].items) : r \in Requests}

InitIngest ==
    /\ activityStore = [i \in Items |-> NoActivity]
    /\ taskCounter = [i \in Items |-> 0]
    /\ batchStore = [r \in Requests |-> NoBatch]
    /\ upl = [r \in Requests |-> IdleUpload]
    /\ outcome = [i \in Items |-> [k \in 1..NUM_TASKS |-> "none"]]
    /\ faults = MaxStoreFaults

\* Rejected with the background tasks added so far still handed to the
\* runner.
RejectedTasksStillRun(r, code) ==
    [upl[r] EXCEPT !.pc = IF upl[r].queue = <<>> THEN "done" ELSE "tasks",
                   !.code = code]

\* The request fails with HTTPException(code); the background tasks added so
\* far are never handed to the runner.
Rejected(r, code) ==
    [upl[r] EXCEPT !.pc = "done", !.code = code, !.queue = <<>>]

\* start_upload, lines 73-113: request validation and the batch record.
\* An upload carries the next n items that were never submitted; `bad` are
\* those whose payload the FIT parser rejects.
StartUploadBegin(r) ==
    /\ upl[r].pc = "new"
    /\ \A q \in Requests : q < r => upl[q].pc # "new"
    /\ \E n \in 1..MaxUploadLen, shape \in {"ok", "mismatch", "badtype"} :
         /\ Cardinality(Submitted) + n <= MaxItems
         /\ LET first == Cardinality(Submitted)
                its == [j \in 1..n |-> first + j]
            IN \E bad \in SUBSET SeqRange(its) :
                 \/ /\ shape # "ok"
                    /\ bad = {}
                    /\ batchStore' = [batchStore EXCEPT ![r] = BatchAtEntry(shape, n)]
                    /\ upl' = [upl EXCEPT ![r] =
                                 [Rejected(r, 422) EXCEPT !.shape = shape]]
                    /\ UNCHANGED faults
                 \/ /\ shape = "ok"
                    /\ batchStore' = [batchStore EXCEPT ![r] = BatchAtEntry(shape, n)]
                    /\ upl' = [upl EXCEPT ![r] =
                                 [@ EXCEPT !.pc = "loop", !.shape = shape,
                                           !.items = its,
                                           !.corrupt = bad, !.idx = 1]]
                    /\ UNCHANGED faults
                 \/ /\ shape = "ok"
                    /\ bad = {}
                    /\ faults > 0
                    /\ faults' = faults - 1
                    /\ upl' = [upl EXCEPT ![r] =
                                 [Rejected(r, 500) EXCEPT !.shape = shape]]
                    /\ UNCHANGED batchStore
    /\ UNCHANGED <<activityStore, taskCounter, outcome, rateVars, syncVars>>

\* start_upload, lines 115-212: one turn of the loop over the items.
StartUploadItem(r) ==
    /\ upl[r].pc = "loop"
    /\ upl[r].idx <= Len(upl[r].items)
    /\ LET i == upl[r].items[upl[r].idx]
           pending == ActivityRecord("pending", "none")
           next == [upl[r] EXCEPT !.idx = @ + 1]
       IN \/ \* invalid payload: FAILED record, no sub-task, next item
             /\ i \in upl[r].corrupt
             /\ activityStore' = [activityStore EXCEPT ![i] =
                                    ActivityRecord("failed", "Invalid FIT file")]
             /\ upl' = [upl EXCEPT ![r] = next]
             /\ UNCHANGED faults
          \/ \* invalid payload and the write of the FAILED record raises
             /\ i \in upl[r].corrupt
             /\ faults > 0
             /\ faults' = faults - 1
             /\ upl' = [upl EXCEPT ![r] = Rejected(r, 500)]
             /\ UNCHANGED activityStore
          \/ \* valid payload: PENDING, IN_PROGRESS, three sub-tasks added
             /\ i \notin upl[r].corrupt
             /\ activityStore' = [activityStore EXCEPT ![i] =
                                    UpdatedActivity(pending, "in_progress", "none")]
             /\ upl' = [upl EXCEPT ![r] =
                          [next EXCEPT !.queue =
                              @ \o [k \in 1..NUM_TASKS |-> <<i, k>>]]]
             /\ UNCHANGED faults
          \/ \* the write of the PENDING record raises
             /\ i \notin upl[r].corrupt
             /\ faults > 0
             /\ faults' = faults - 1
             /\ upl' = [upl EXCEPT ![r] = Rejected(r, 500)]
             /\ UNCHANGED activityStore
          \/ \* update_activity_status(IN_PROGRESS) raises, the handler of
             \* line 198 records FAILED and goes on with the next item
             /\ i \notin upl[r].corrupt
             /\ faults > 0
             /\ faults' = faults - 1
             /\ activityStore' = [activityStore EXCEPT ![i] =
                                    UpdatedActivity(pending, "failed", "store error")]
             /\ upl' = [upl EXCEPT ![r] = next]
          \/ \* ... and the handler's own status update raises as well
             /\ i \notin upl[r].corrupt
             /\ faults > 1
             /\ faults' = faults - 2
             /\ activityStore' = [activityStore EXCEPT ![i] = pending]
             /\ upl' = [upl EXCEPT ![r] = Rejected(r, 500)]
    /\ batchStore' = [batchStore EXCEPT ![r] = BatchKept(r)]
    /\ UNCHANGED <<taskCounter, outcome, rateVars, syncVars>>

\* start_upload, line 214: the response is sent, then the runner executes
\* the background tasks it was given one after another, in the order added.
StartUploadReturn(r) ==
    /\ upl[r].pc = "loop"
    /\ upl[r].idx > Len(upl[r].items)
    /\ upl' = [upl EXCEPT ![r] =
                 [@ EXCEPT !.code = 200, !.tpc = "check",
                           !.pc = IF upl[r].queue = <<>> THEN "done" ELSE "tasks"]]
    /\ UNCHANGED <<activityStore, taskCounter, batchStore, outcome, faults, rateVars, syncVars>>

\* Returned for a wrapper that re-raises the sub-task's exception: the
\* runner stops and the tasks still queued are never run.
ReturnedReraising(r) ==
    IF upl[r].terr # "none"
    THEN [upl[r] EXCEPT !.queue = <<>>, !.tpc = "check", !.terr = "none", !.pc = "done"]
    ELSE [upl[r] EXCEPT !.queue = Tail(@), !.tpc = "check", !.terr = "none",
                        !.pc = IF Len(upl[r].queue) = 1 THEN "done" ELSE "tasks"]

\* process_with_status, lines 301, 313 and 330-332: the running wrapper
\* returns, never raises; the runner turns to the next task.
Returned(r) ==
    [upl[r] EXCEPT !.queue = Tail(@), !.tpc = "check", !.terr = "none",
                   !.pc = IF Len(upl[r].queue) = 1 THEN "done" ELSE "tasks"]

SetOutcome(i, k, v) == [outcome EXCEPT ![i][k] = v]

\* process_with_status, lines 289-301.
WrapperCheck(r) ==
    /\ upl[r].pc = "tasks"
    /\ upl[r].tpc = "check"
    /\ LET i == upl[r].queue[1][1]
           k == upl[r].queue[1][2]
           cur == activityStore[i]
           branch == IF cur.status = "absent" THEN "run"
                     ELSE WrapperBranch(cur.status)
           failed == [upl[r] EXCEPT !.tpc = "fail", !.terr = ErrorIn(k)]
       IN \/ \* the read, or the IN_PROGRESS update, raises
             /\ faults > 0
             /\ faults' = faults - 1
             /\ upl' = [upl EXCEPT ![r] = failed]
             /\ outcome' = SetOutcome(i, k, "aborted")
             /\ UNCHANGED activityStore
          \/ /\ branch = "skip"
             /\ upl' = [upl EXCEPT ![r] = Returned(r)]
             /\ outcome' = SetOutcome(i, k, "skipped")
             /\ UNCHANGED <<activityStore, faults>>
          \/ /\ branch = "promote"
             /\ activityStore' = [activityStore EXCEPT ![i] =
                                    UpdatedActivity(cur, "in_progress", "none")]
             /\ upl' = [upl EXCEPT ![r].tpc = "exec"]
             /\ UNCHANGED <<outcome, faults>>
          \/ /\ branch = "run"
             /\ upl' = [upl EXCEPT ![r].tpc = "exec"]
             /\ UNCHANGED <<activityStore, outcome, faults>>
    /\ UNCHANGED <<taskCounter, batchStore, rateVars, syncVars>>

\* process_with_status, line 304: the storage operation returns or raises.
WrapperExec(r) ==
    /\ upl[r].pc = "tasks"
    /\ upl[r].tpc = "exec"
    /\ LET i == upl[r].queue[1][1]
           k == upl[r].queue[1][2]
       IN \/ /\ upl' = [upl EXCEPT ![r].tpc = "incr"]
             /\ outcome' = SetOutcome(i, k, "ok")
          \/ /\ upl' = [upl EXCEPT ![r] =
                          [@ EXCEPT !.tpc = "fail", !.terr = ErrorIn(k)]]
             /\ outcome' = SetOutcome(i, k, "raised")
    /\ UNCHANGED <<activityStore, taskCounter, batchStore, faults, rateVars, syncVars>>

\* process_with_status, lines 306-313, and increment_completed_tasks: an
\* exception of a store operation is logged and the wrapper returns.
WrapperIncrement(r) ==
    /\ upl[r].pc = "tasks"
    /\ upl[r].tpc = "incr"
    /\ LET i == upl[r].queue[1][1]
           cur == activityStore[i]
           completed == taskCounter[i] + 1
       IN \/ \* get raises, or the pipeline raises
             /\ faults > 0
             /\ faults' = faults - 1
             /\ UNCHANGED <<activityStore, taskCounter>>
          \/ \* hincrby and hget ran, the final set raises
             /\ cur.status # "absent"
             /\ faults > 0
             /\ faults' = faults - 1
             /\ taskCounter' = [taskCounter EXCEPT ![i] = completed]
             /\ UNCHANGED activityStore
          \/ /\ cur.status = "absent"
             /\ UNCHANGED <<activityStore, taskCounter, faults>>
          \/ /\ cur.status # "absent"
             /\ taskCounter' = [taskCounter EXCEPT ![i] = completed]
             /\ activityStore' = [activityStore EXCEPT ![i] =
                                    IncrementedActivity(cur, completed, NUM_TASKS)]
             /\ UNCHANGED faults
    /\ upl' = [upl EXCEPT ![r] = Returned(r)]
    /\ batchStore' = [batchStore EXCEPT ![r] = BatchKept(r)]
    /\ UNCHANGED <<outcome, rateVars, syncVars>>

\* process_with_status, lines 315-332: the failure is recorded with
\* update_activity_status; an exception of that update is only logged.
WrapperFail(r) ==
    /\ upl[r].pc = "tasks"
    /\ upl[r].tpc = "fail"
    /\ LET i == upl[r].queue[1][1]
           cur == activityStore[i]
       IN \/ /\ faults > 0
             /\ faults' = faults - 1
             /\ UNCHANGED activityStore
          \/ /\ activityStore' = [activityStore EXCEPT ![i] =
                                    IF cur.status = "absent" THEN cur
                                    ELSE UpdatedActivity(cur, "failed", upl[r].terr)]
             /\ UNCHANGED faults
    /\ upl' = [upl EXCEPT ![r] = Returned(r)]
    /\ batchStore' = [batchStore EXCEPT ![r] = BatchKept(r)]
    /\ UNCHANGED <<taskCounter, outcome, rateVars, syncVars>>

\* The fields of the hash stored under "<prefix>:<id>".  The only hash
\* field the boundary ever writes is completed_tasks of "activity:<id>"
\* (increment_completed_tasks); nothing writes under "status:<id>".
HashFields(prefix, i) ==
    IF prefix = "activity" /\ taskCounter[i] > 0 THEN {"completed_tasks"} ELSE {}

\* get_upload_status, lines 225-248: hgetall of "status:<id>"; an empty
\* hash is answered with 404.  `seen` and `counter` are what the store
\* holds for the item under "activity:<id>" at that moment.
ItemStatusResponse(i) ==
    [code |-> IF HashFields("status", i) = {} THEN 404 ELSE 200,
     item |-> i, seen |-> activityStore[i], counter |-> taskCounter[i]]

\* hgetall raises: HTTPException(500).
ItemStatusUnavailable(i) ==
    [code |-> 500, item |-> i, seen |-> activityStore[i], counter |-> taskCounter[i]]

\* One poll of the status of item i.
PollItem(i) ==
    /\ poll.n < MaxPolls
    /\ \/ /\ poll' = [n |-> poll.n + 1, prev |-> poll.last,
                      last |-> ItemStatusResponse(i)]
          /\ UNCHANGED faults
       \/ /\ faults > 0
          /\ faults' = faults - 1
          /\ poll' = [n |-> poll.n + 1, prev |-> poll.last,
                      last |-> ItemStatusUnavailable(i)]
    /\ UNCHANGED <<rateVars, ingVars, syncStore, lastWrite, run, lastCall, limits,
                   gearCall>>

NextIngest ==
    \/ \E r \in Requests : StartUploadBegin(r)
    \/ \E r \in Requests : StartUploadItem(r)
    \/ \E r \in Requests : StartUploadReturn(r)
    \/ \E r \in Requests : WrapperCheck(r)
    \/ \E r \in Requests : WrapperExec(r)
    \/ \E r \in Requests : WrapperIncrement(r)
    \/ \E r \in Requests : WrapperFail(r)

(***************************************************************************)
(* SyncManager: status record, provider calls with retry, start_sync       *)
(***************************************************************************)
\* settings.MAX_RETRIES
MAX_RETRIES == 3

\* settings.SYNC_BATCH_SIZE
SYNC_BATCH_SIZE == 3

\* An omitted (None) argument of update_status.
None == -1

NoSync ==
    [status |-> "absent", total_activities |-> 0, processed_activities |-> 0,
     failed_activities |-> 0, error_message |-> "none", last_updated |-> 0]

\* GetStatus that stamps every answer with the current time.
GetStatusRestamped ==
    IF syncStore.status = "absent"
    THEN [status |-> "pending", total_activities |-> 0,
          processed_activities |-> 0, failed_activities |-> 0,
          error_message |-> "none", last_updated |-> clock]
    ELSE [syncStore EXCEPT !.last_updated = clock]

\* get_status, lines 353-362: the stored record, or a PENDING record with
\* zero counters, stamped with the current time, when the key is absent.
GetStatus ==
    IF syncStore.status = "absent"
    THEN [status |-> "pending", total_activities |-> 0,
          processed_activities |-> 0, failed_activities |-> 0,
          error_message |-> "none", last_updated |-> clock]
    ELSE syncStore

\* UpdatedSync that starts every omitted counter from zero.
UpdatedSyncResetting(current, status, total, processed, failed, error) ==
    [status |-> status,
     total_activities |-> IF total # None THEN total ELSE 0,
     processed_activities |-> IF processed # None THEN processed ELSE 0,
     failed_activities |-> IF failed # None THEN failed ELSE 0,
     error_message |-> error,
     last_updated |-> clock]

\* update_status, lines 86-103: the record written over the current one.
UpdatedSync(current, status, total, processed, failed, error) ==
    [status |-> status,
     total_activities |-> IF total # None THEN total
                          ELSE current.total_activities,
     processed_activities |-> IF processed # None THEN processed
                              ELSE current.processed_activities,
     failed_activities |-> IF failed # None THEN failed
                           ELSE current.failed_activities,
     error_message |-> error,
     last_updated |-> clock]

\* RetryDecision with the bound off by one.
RetryDecisionOffByOne(tries, exc) ==
    IF exc = "client_error" /\ tries <= MAX_RETRIES THEN "retry" ELSE "raise"

\* backoff.on_exception(expo, (ClientError, TimeoutError), max_tries=...):
\* after a failed attempt number `tries`, retry or give the exception up to
\* the caller.  Exceptions of other types are never retried.
RetryDecision(tries, exc) ==
    IF exc = "client_error" /\ tries < MAX_RETRIES THEN "retry" ELSE "raise"

\* What one attempt of a provider call may do: return, fail in transport
\* (aiohttp.ClientError / TimeoutError), be answered with a 4xx status other
\* than 429 (raise_for_status raises ClientResponseError), or raise
\* something else (a response that does not map into the schema).
AttemptOutcomes == {"ok", "client_error", "http_4xx", "other_error"}

\* The exception type the retry decorator sees: ClientResponseError is a
\* subclass of aiohttp.ClientError.
ExceptionClass(o) == IF o = "http_4xx" THEN "client_error" ELSE o

\* BatchOf without slicing: every remaining item at once.
BatchOfUnsliced(base, n) == (base + 1)..n

\* SYNC_BATCH_SIZE slices: the items of the batch that starts after `base`.
BatchOf(base, n) ==
    (base + 1)..(IF base + SYNC_BATCH_SIZE < n THEN base + SYNC_BATCH_SIZE ELSE n)

\* The state of one item of the batch in flight: fetching its payload,
\* being forwarded, or the result of process_activity / process_gear.
Slot(st) == [st |-> st, tries |-> IF st = "fetch" THEN 1 ELSE 0]

\* lines 293-296 / 318-321: the fold of one batch's results.
BatchProcessed(slots) == Cardinality({j \in DOMAIN slots : slots[j].st = "true"})
\* BatchFailed that counts only the results that are exception objects.
BatchFailedExceptionsOnly(slots) ==
    Cardinality({j \in DOMAIN slots : slots[j].st = "exception"})

BatchFailed(slots) == Cardinality({j \in DOMAIN slots : slots[j].st = "false"})

\* Accumulated that keeps only the count of the latest batch.
AccumulatedPerBatch(sofar, batch) == batch

\* lines 298-299 / 323-324: the running counters of the run.
Accumulated(sofar, batch) == sofar + batch

\* FinalStatus that forgives a single failed item.
FinalStatusLenient(failed) == IF failed <= 1 THEN "completed" ELSE "failed"

\* line 334
FinalStatus(failed) == IF failed = 0 THEN "completed" ELSE "failed"

\* The total that start_sync passes to update_status at each of its writes.
TotalAtSetup(nA, nG) == nA
TotalAtActivityBatch(nA, nG) == nA
TotalAtGearBatch(nA, nG) == nG
TotalAtFinal(nA, nG) == nA

IdleRun ==
    [pc |-> "idle", code |-> 0, tries |-> 0,
     nA |-> 0, nG |-> 0, processed |-> 0, failed |-> 0,
     base |-> 0, slots |-> <<>>, corrupt |-> {}, lost |-> 0,
     err |-> "none", result |-> "none"]

\* The arguments of a call of update_status.
StatusArgs(status, total, processed, failed, error) ==
    [status |-> status, total |-> total, processed |-> processed,
     failed |-> failed, error |-> error]

NoWrite ==
    [by |-> 0, kind |-> "none",
     args |-> StatusArgs("none", None, None, None, "none"), returned |-> NoSync]

NoCall == [fn |-> "none", tries |-> 0, result |-> "none"]

\* No poll was made: `last` is the response of the latest poll, `prev` of
\* the one before it, each with the stored value the poll read.
NoResponse == [code |-> 0]

NoPoll == [n |-> 0, prev |-> NoResponse, last |-> NoResponse]

\* The JSON values a flag of a gear entry may arrive as.
FlagValues == {"absent", "true_bool", "false_bool", "true_str", "false_str"}

\* The entries of a gear response: the flags `retired` and `component` of
\* each; an entry's id is its position in the response.
GearEntries == [retired : FlagValues, component : {"absent", "true_bool", "false_bool"}]

\* Python truthiness of a JSON value: None and False are falsy, True and
\* every non-empty string are truthy.
Truthy(v) == v \in {"true_bool", "true_str", "false_str"}

\* fetch_gear, line 213: the entries the loop skips.
GearSkipped(e) == e.retired = "true_str" \/ Truthy(e.component)

\* fetch_gear, lines 211-223: the list built from the first n entries of
\* the response, in the order of the response.
RECURSIVE MappedGear(_, _)
MappedGear(data, n) ==
    IF n = 0 THEN <<>>
    ELSE IF GearSkipped(data[n]) THEN MappedGear(data, n - 1)
         ELSE Append(MappedGear(data, n - 1), n)

NoGearCall == [data |-> <<>>, out |-> <<>>, done |-> FALSE]

\* fetch_gear answered by the provider with gearCall.data.
FetchGearMap ==
    /\ ~gearCall.done
    /\ gearCall' = [gearCall EXCEPT !.out = MappedGear(gearCall.data, Len(gearCall.data)),
                                    !.done = TRUE]
    /\ UNCHANGED <<rateVars, ingVars, faults, syncStore, lastWrite, run, lastCall,
                   limits, poll>>

InitSync ==
    /\ syncStore = NoSync
    /\ lastWrite = NoWrite
    /\ run = [r \in Runs |-> IdleRun]
    /\ lastCall = NoCall
    /\ poll = NoPoll
    /\ gearCall = NoGearCall

\* WriteStatus that keeps the stored error_message when no error is given.
WriteStatusKeepingError(r, kind, status, total, processed, failed, error) ==
    LET updated == [UpdatedSync(GetStatus, status, total, processed, failed, error)
                       EXCEPT !.error_message =
                           IF error # "none" THEN error ELSE GetStatus.error_message]
    IN /\ syncStore' = updated
       /\ lastWrite' = [by |-> r, kind |-> kind,
                        args |-> StatusArgs(status, total, processed, failed, error),
                        returned |-> updated]

\* One call of update_status by run r (0: the trigger endpoint), lines
\* 86-103: the current record is read, the updated one is set and returned.
WriteStatus(r, kind, status, total, processed, failed, error) ==
    LET updated == UpdatedSync(GetStatus, status, total, processed, failed, error)
    IN /\ syncStore' = updated
       /\ lastWrite' = [by |-> r, kind |-> kind,
                        args |-> StatusArgs(status, total, processed, failed, error),
                        returned |-> updated]

\* Escaped without a handler: the exception leaves start_sync at once.
EscapedUnhandled(r, e) == [run[r] EXCEPT !.pc = "done", !.err = e, !.slots = <<>>]

\* An exception escapes the body of start_sync: the handler of line 345
\* takes over.
Escaped(r, e) == [run[r] EXCEPT !.pc = "except", !.err = e, !.slots = <<>>]

\* ItemFailed for an item whose exception is not caught: it leaves gather
\* and the body of start_sync.
ItemFailedAborting(r, j) ==
    [run[r] EXCEPT !.pc = "except", !.err = "item error", !.slots = <<>>,
                   !.lost = @ + 1]

\* process_activity, lines 194-196, and process_gear, lines 233-235: the
\* exception of an item is caught and the item's result is False.
ItemFailed(r, j) ==
    [run[r] EXCEPT !.slots[j] = Slot("false"), !.lost = @ + 1]

\* RejectedTrigger with the run handed to the background runner before the
\* rate limit is consulted.
RejectedTriggerStillQueued(r) == [run[r] EXCEPT !.pc = "queued", !.code = 429]

\* main.py start_sync, lines 65-66: the limiter rejects the request;
\* HTTPException(429) leaves the handler before anything else is done.
RejectedTrigger(r) == [run[r] EXCEPT !.pc = "done", !.code = 429]

\* FailedTrigger with the run handed to the background runner before the
\* store is used.
FailedTriggerStillQueued(r) == [run[r] EXCEPT !.pc = "queued", !.code = 500]

\* main.py start_sync, lines 65 and 78-81: acquire or update_status raises;
\* the exception leaves the handler before add_task is reached and the
\* request is answered with a server error.
FailedTrigger(r) == [run[r] EXCEPT !.pc = "done", !.code = 500]

\* main.py start_sync, lines 65-83: rate limit, PENDING record, background
\* run.  acquire has no suspension point inside one event loop.
Trigger(r) ==
    /\ run[r].pc = "idle"
    /\ r <= limits.runs
    /\ \A q \in Runs : q < r => run[q].pc # "idle"
    /\ LET key == WindowKey(clock)
           cur == IncrResult(key)
           counted == [windows EXCEPT ![key] =
                          [count |-> cur, expireAt |-> clock + period]]
       IN \/ \* the rate limiter's pipeline raises
             /\ faults > 0
             /\ faults' = faults - 1
             /\ run' = [run EXCEPT ![r] = FailedTrigger(r)]
             /\ UNCHANGED <<windows, syncStore, lastWrite>>
          \/ /\ ~Allowed(cur)
             /\ windows' = counted
             /\ run' = [run EXCEPT ![r] = RejectedTrigger(r)]
             /\ UNCHANGED <<syncStore, lastWrite, faults>>
          \/ \* the write of the PENDING record raises
             /\ Allowed(cur)
             /\ faults > 0
             /\ faults' = faults - 1
             /\ windows' = counted
             /\ run' = [run EXCEPT ![r] = FailedTrigger(r)]
             /\ UNCHANGED <<syncStore, lastWrite>>
          \/ /\ Allowed(cur)
             /\ windows' = counted
             /\ WriteStatus(0, "trigger", "pending", None, None, None, "none")
             /\ run' = [run EXCEPT ![r] = [@ EXCEPT !.pc = "queued", !.code = 200]]
             /\ UNCHANGED faults
    /\ UNCHANGED <<requests, period, clock, acq, calls, pollVars, lastCall, ingVars>>

\* start_sync, line 265.
RunStart(r) ==
    /\ run[r].pc = "queued"
    /\ \/ /\ WriteStatus(r, "start", "in_progress", None, None, None, "none")
          /\ run' = [run EXCEPT ![r] = [@ EXCEPT !.pc = "fetch_activities", !.tries = 1]]
          /\ UNCHANGED faults
       \/ /\ faults > 0
          /\ faults' = faults - 1
          /\ run' = [run EXCEPT ![r] = Escaped(r, "store error")]
          /\ UNCHANGED <<syncStore, lastWrite>>
    /\ UNCHANGED <<rateVars, pollVars, lastCall, ingVars>>

\* One attempt of a list fetch under the retry decorator; `field` receives
\* the length of the list, `after` is where start_sync goes on.
ListFetch(r, here, field, max, after) ==
    /\ run[r].pc = here
    /\ \E o \in AttemptOutcomes :
         \/ /\ o = "ok"
            /\ \E n \in 0..max :
                 run' = [run EXCEPT ![r] =
                           [@ EXCEPT ![field] = n, !.pc = after, !.tries = 1]]
            /\ lastCall' = [fn |-> here, tries |-> run[r].tries, result |-> "ok"]
         \/ /\ o # "ok"
            /\ RetryDecision(run[r].tries, ExceptionClass(o)) = "retry"
            /\ run' = [run EXCEPT ![r].tries = @ + 1]
            /\ UNCHANGED lastCall
         \/ /\ o # "ok"
            /\ RetryDecision(run[r].tries, ExceptionClass(o)) = "raise"
            /\ run' = [run EXCEPT ![r] = Escaped(r, o)]
            /\ lastCall' = [fn |-> here, tries |-> run[r].tries, result |-> o]
    /\ UNCHANGED <<syncStore, lastWrite, faults, rateVars, pollVars, ingVars>>

\* start_sync, lines 267-268, and fetch_activities.
FetchActivities(r) == ListFetch(r, "fetch_activities", "nA", limits.acts, "fetch_gear")

\* start_sync, lines 270-271, and fetch_gear.
FetchGear(r) == ListFetch(r, "fetch_gear", "nG", limits.gear, "set_total")

\* start_sync, lines 273-282.
SetTotal(r) ==
    /\ run[r].pc = "set_total"
    /\ \/ /\ WriteStatus(r, "total", "in_progress",
                         TotalAtSetup(run[r].nA, run[r].nG), 0, 0, "none")
          /\ run' = [run EXCEPT ![r] =
                       [@ EXCEPT !.pc = "activities", !.processed = 0,
                                 !.failed = 0, !.base = 0]]
          /\ UNCHANGED faults
       \/ /\ faults > 0
          /\ faults' = faults - 1
          /\ run' = [run EXCEPT ![r] = Escaped(r, "store error")]
          /\ UNCHANGED <<syncStore, lastWrite>>
    /\ UNCHANGED <<rateVars, pollVars, lastCall, ingVars>>

\* start_sync, lines 284-291: the next slice of activities; gather starts
\* process_activity for every item of the slice at once.
StartActivityBatch(r) ==
    /\ run[r].pc = "activities"
    /\ run[r].slots = <<>>
    /\ IF run[r].base < run[r].nA
       THEN run' = [run EXCEPT ![r].slots =
                       [j \in BatchOf(run[r].base, run[r].nA) |-> Slot("fetch")]]
       ELSE run' = [run EXCEPT ![r] = [@ EXCEPT !.pc = "gear", !.base = 0]]
    /\ UNCHANGED <<syncStore, lastWrite, faults, rateVars, pollVars, lastCall, ingVars>>

\* process_activity, line 186: one attempt of fetch_fit_file under the retry
\* decorator; the slot counts the attempts.
ItemFetch(r, j) ==
    /\ run[r].pc = "activities"
    /\ j \in DOMAIN run[r].slots
    /\ run[r].slots[j].st = "fetch"
    /\ LET tries == run[r].slots[j].tries
       IN \E o \in AttemptOutcomes :
            \/ /\ o = "ok"
               /\ run' = [run EXCEPT ![r].slots[j] = Slot("post")]
               /\ lastCall' = [fn |-> "fetch_fit_file", tries |-> tries, result |-> "ok"]
            \/ /\ o # "ok"
               /\ RetryDecision(tries, ExceptionClass(o)) = "retry"
               /\ run' = [run EXCEPT ![r].slots[j].tries = @ + 1]
               /\ UNCHANGED lastCall
            \/ \* the exception reaches process_activity, which returns False
               /\ o # "ok"
               /\ RetryDecision(tries, ExceptionClass(o)) = "raise"
               /\ run' = [run EXCEPT ![r] = ItemFailed(r, j)]
               /\ lastCall' = [fn |-> "fetch_fit_file", tries |-> tries, result |-> o]
    /\ UNCHANGED <<syncStore, lastWrite, faults, rateVars, pollVars, ingVars>>

\* raise_for_status: the status codes that make the forward call raise.
RaisesForStatus(code) == code >= 400

\* The response of start_upload to a request whose only payload is invalid
\* (line 146 continues the loop, line 214 returns the batch record).
InvalidPayloadResponse == 200

\* process_activity, lines 189-196: the forward call to the ingestion
\* boundary.  The boundary's start_upload stores the item's first status.
ItemPost(r, j) ==
    /\ run[r].pc = "activities"
    /\ j \in DOMAIN run[r].slots
    /\ run[r].slots[j].st = "post"
    /\ \/ \* the call raises, or the boundary answers with an error status
          /\ run' = [run EXCEPT ![r] = ItemFailed(r, j)]
          /\ UNCHANGED activityStore
       \/ \* the payload is not parseable
          /\ activityStore' = [activityStore EXCEPT ![j] =
                                 ActivityRecord("failed", "Invalid FIT file")]
          /\ run' = [run EXCEPT
                       ![r].slots[j] = IF RaisesForStatus(InvalidPayloadResponse)
                                       THEN Slot("false") ELSE Slot("true"),
                       ![r].corrupt = @ \cup {j}]
       \/ \* the payload is accepted
          /\ activityStore' = [activityStore EXCEPT ![j] =
                                 UpdatedActivity(ActivityRecord("pending", "none"),
                                                 "in_progress", "none")]
          /\ run' = [run EXCEPT ![r].slots[j] = Slot("true")]
    /\ UNCHANGED <<syncStore, lastWrite, faults, rateVars, pollVars, lastCall,
                   taskCounter, batchStore, upl, outcome>>

BatchSettled(slots) ==
    /\ slots # <<>>
    /\ \A j \in DOMAIN slots : slots[j].st \in {"true", "false"}

\* One batch is folded into the run's counters and the record is written;
\* an exception of the write escapes to the handler.
FoldBatch(r, here, kind, total) ==
    /\ run[r].pc = here
    /\ BatchSettled(run[r].slots)
    /\ LET processed == Accumulated(run[r].processed, BatchProcessed(run[r].slots))
           failed == Accumulated(run[r].failed, BatchFailed(run[r].slots))
           folded == [run[r] EXCEPT !.processed = processed, !.failed = failed]
       IN \/ /\ WriteStatus(r, kind, "in_progress", total, processed, failed, "none")
             /\ run' = [run EXCEPT ![r] =
                          [folded EXCEPT !.slots = <<>>,
                                         !.base = @ + Cardinality(DOMAIN run[r].slots)]]
             /\ UNCHANGED faults
          \/ /\ faults > 0
             /\ faults' = faults - 1
             /\ run' = [run EXCEPT ![r] =
                          [folded EXCEPT !.pc = "except", !.err = "store error",
                                         !.slots = <<>>]]
             /\ UNCHANGED <<syncStore, lastWrite>>
    /\ UNCHANGED <<rateVars, pollVars, lastCall, ingVars>>

\* start_sync, lines 293-307.
FoldActivityBatch(r) ==
    FoldBatch(r, "activities", "activity_batch",
              TotalAtActivityBatch(run[r].nA, run[r].nG))

\* start_sync, lines 309-316: the next slice of gear; gather starts
\* process_gear for every item of the slice at once.
StartGearBatch(r) ==
    /\ run[r].pc = "gear"
    /\ run[r].slots = <<>>
    /\ IF run[r].base < run[r].nG
       THEN run' = [run EXCEPT ![r].slots =
                       [j \in BatchOf(run[r].base, run[r].nG) |-> Slot("post")]]
       ELSE run' = [run EXCEPT ![r].pc = "final"]
    /\ UNCHANGED <<syncStore, lastWrite, faults, rateVars, pollVars, lastCall, ingVars>>

\* process_gear, lines 225-235.
GearPost(r, j) ==
    /\ run[r].pc = "gear"
    /\ j \in DOMAIN run[r].slots
    /\ run[r].slots[j].st = "post"
    /\ \/ run' = [run EXCEPT ![r].slots[j] = Slot("true")]
       \/ run' = [run EXCEPT ![r] = ItemFailed(r, j)]
    /\ UNCHANGED <<syncStore, lastWrite, faults, rateVars, pollVars, lastCall, ingVars>>

\* start_sync, lines 318-332.
FoldGearBatch(r) ==
    FoldBatch(r, "gear", "gear_batch", TotalAtGearBatch(run[r].nA, run[r].nG))

\* start_sync, lines 334-343.
Final(r) ==
    /\ run[r].pc = "final"
    /\ \/ /\ WriteStatus(r, "final", FinalStatus(run[r].failed),
                         TotalAtFinal(run[r].nA, run[r].nG),
                         run[r].processed, run[r].failed, "none")
          /\ run' = [run EXCEPT ![r] =
                       [@ EXCEPT !.pc = "done",
                                 !.result = FinalStatus(run[r].failed)]]
          /\ UNCHANGED faults
       \/ /\ faults > 0
          /\ faults' = faults - 1
          /\ run' = [run EXCEPT ![r] = Escaped(r, "store error")]
          /\ UNCHANGED <<syncStore, lastWrite>>
    /\ UNCHANGED <<rateVars, pollVars, lastCall, ingVars>>

\* start_sync, lines 345-349: FAILED with the exception's text, then the
\* exception is re-raised.  An exception of this write replaces it.
Except(r) ==
    /\ run[r].pc = "except"
    /\ \/ /\ WriteStatus(r, "except", "failed", None, None, None, run[r].err)
          /\ UNCHANGED faults
       \/ /\ faults > 0
          /\ faults' = faults - 1
          /\ UNCHANGED <<syncStore, lastWrite>>
    /\ run' = [run EXCEPT ![r] = [@ EXCEPT !.pc = "done", !.result = "raised"]]
    /\ UNCHANGED <<rateVars, pollVars, lastCall, ingVars>>

NextSync ==
    \/ \E r \in Runs : Trigger(r)
    \/ \E r \in Runs : RunStart(r)
    \/ \E r \in Runs : FetchActivities(r)
    \/ \E r \in Runs : FetchGear(r)
    \/ \E r \in Runs : SetTotal(r)
    \/ \E r \in Runs : StartActivityBatch(r)
    \/ \E r \in Runs, j \in Items : ItemFetch(r, j)
    \/ \E r \in Runs, j \in Items : ItemPost(r, j)
    \/ \E r \in Runs : FoldActivityBatch(r)
    \/ \E r \in Runs : StartGearBatch(r)
    \/ \E r \in Runs, j \in 1..MaxGear : GearPost(r, j)
    \/ \E r \in Runs : FoldGearBatch(r)
    \/ \E r \in Runs : Final(r)
    \/ \E r \in Runs : Except(r)

\* A trigger request of a user whose earlier runs have all ended.
TriggerAgain(r) ==
    /\ \A q \in Runs : q < r => run[q].pc = "done"
    /\ Trigger(r)

\* get_sync_status, main.py lines 86-89: the endpoint answers with whatever
\* get_status returns; `seen` is the stored value that get_status read.
StatusResponse == [code |-> 200, body |-> GetStatus, seen |-> syncStore]

\* The store raises inside get_status: the request ends with a server error.
StatusUnavailable == [code |-> 500, body |-> NoSync, seen |-> syncStore]

\* One poll of the user's sync status.
PollStatus ==
    /\ poll.n < MaxPolls
    /\ \/ /\ poll' = [n |-> poll.n + 1, prev |-> poll.last, last |-> StatusResponse]
          /\ UNCHANGED faults
       \/ /\ faults > 0
          /\ faults' = faults - 1
          /\ poll' = [n |-> poll.n + 1, prev |-> poll.last, last |-> StatusUnavailable]
    /\ UNCHANGED <<rateVars, ingVars, syncStore, lastWrite, run, lastCall, limits,
                   gearCall>>

\* The steps of the runs that trigger requests have scheduled.
RunSteps ==
    \/ \E r \in Runs : RunStart(r)
    \/ \E r \in Runs : FetchActivities(r)
    \/ \E r \in Runs : FetchGear(r)
    \/ \E r \in Runs : SetTotal(r)
    \/ \E r \in Runs : StartActivityBatch(r)
    \/ \E r \in Runs, j \in Items : ItemFetch(r, j)
    \/ \E r \in Runs, j \in Items : ItemPost(r, j)
    \/ \E r \in Runs : FoldActivityBatch(r)
    \/ \E r \in Runs : StartGearBatch(r)
    \/ \E r \in Runs, j \in 1..MaxGear : GearPost(r, j)
    \/ \E r \in Runs : FoldGearBatch(r)
    \/ \E r \in Runs : Final(r)
    \/ \E r \in Runs : Except(r)

\* A user who triggers again only after the previous run has ended.
NextRetrigger ==
    \/ \E r \in Runs : TriggerAgain(r)
    \/ RunSteps

\* One sync of a user whose provider account has no gear, over time, and
\* the polls of its status.
NextPoll ==
    \/ Tick
    \/ PollStatus
    \/ \E r \in Runs : Trigger(r)
    \/ \E r \in Runs : RunStart(r)
    \/ \E r \in Runs : FetchActivities(r)
    \/ \E r \in Runs : FetchGear(r)
    \/ \E r \in Runs : SetTotal(r)
    \/ \E r \in Runs : StartActivityBatch(r)
    \/ \E r \in Runs, j \in Items : ItemFetch(r, j)
    \/ \E r \in Runs, j \in Items : ItemPost(r, j)
    \/ \E r \in Runs : FoldActivityBatch(r)
    \/ \E r \in Runs : StartGearBatch(r)
    \/ \E r \in Runs : Final(r)
    \/ \E r \in Runs : Except(r)

\* The settings of the deployment explored by each specification.
DefaultScope == [runs |-> 1, acts |-> MaxActivities, gear |-> MaxGear]

\* The rate limiter under every limit and window length of the bounds.
InitRateLimiter ==
    /\ InitRate /\ InitIngest /\ InitSync
    /\ requests \in 1..MaxLimit
    /\ period \in 1..MaxPeriod
    /\ limits = DefaultScope

SpecRate == InitRateLimiter /\ [][NextRate]_vars

\* Two callers sharing one limiter at the largest limit of the bounds, under
\* every window length: the counter does not depend on the limit.
InitCounter ==
    /\ InitRate /\ InitIngest /\ InitSync
    /\ requests = MaxLimit
    /\ period \in 1..MaxPeriod
    /\ limits = DefaultScope

NextCounter ==
    \/ Tick
    \/ \E p \in 1..2 : AcquireBegin(p)
    \/ \E p \in 1..2 : AcquireExecute(p)

SpecCounter == InitCounter /\ [][NextCounter]_vars

\* The ingestion boundary: uploads and their background sub-tasks.
InitIngestion ==
    /\ InitRate /\ InitIngest /\ InitSync
    /\ requests = 1
    /\ period = 1
    /\ limits = DefaultScope

SpecIngest == InitIngestion /\ [][NextIngest]_vars

\* The ingestion boundary with a client that polls the status of items.
NextItemPoll ==
    \/ NextIngest
    \/ \E i \in Items : PollItem(i)

SpecItemPoll == InitIngestion /\ [][NextItemPoll]_vars

\* One trigger request and its sync run over the full item bounds.
InitSyncRuns ==
    /\ InitRate /\ InitIngest /\ InitSync
    /\ requests = 1
    /\ period = 1
    /\ limits = DefaultScope

SpecSync == InitSyncRuns /\ [][NextSync]_vars

\* Several trigger requests of one user within one clock second: their runs
\* overlap, each over at most one activity and one gear item.
OverlapScope == [runs |-> MaxRuns, acts |-> 1, gear |-> 1]

InitOverlap ==
    /\ InitRate /\ InitIngest /\ InitSync
    /\ requests \in 1..MaxLimit
    /\ period = 1
    /\ limits = OverlapScope

SpecOverlap == InitOverlap /\ [][NextSync]_vars

\* Repeated trigger requests of one user within one clock second, each
\* after the previous run has ended.
InitRetrigger ==
    /\ InitRate /\ InitIngest /\ InitSync
    /\ requests \in 1..MaxLimit
    /\ period = 1
    /\ limits = OverlapScope

SpecRetrigger == InitRetrigger /\ [][NextRetrigger]_vars

\* One trigger request, its run over at most one activity and no gear, and
\* status polls, with the clock running.
PollScope == [runs |-> 1, acts |-> 1, gear |-> 0]

InitPoll ==
    /\ InitRate /\ InitIngest /\ InitSync
    /\ requests = 1
    /\ period = 1
    /\ limits = PollScope

SpecPoll == InitPoll /\ [][NextPoll]_vars

\* The steps of the run that trigger request r scheduled.
RunStep(r) ==
    \/ RunStart(r)
    \/ FetchActivities(r)
    \/ FetchGear(r)
    \/ SetTotal(r)
    \/ StartActivityBatch(r)
    \/ \E j \in Items : ItemFetch(r, j)
    \/ \E j \in Items : ItemPost(r, j)
    \/ FoldActivityBatch(r)
    \/ StartGearBatch(r)
    \/ \E j \in 1..MaxGear : GearPost(r, j)
    \/ FoldGearBatch(r)
    \/ Final(r)
    \/ Except(r)

\* A run and the run of one trigger that arrives while it is in flight, for
\* a user whose provider account has at most one activity and no gear.
LiveScope == [runs |-> 2, acts |-> 1, gear |-> 0]

NextLive ==
    \/ \E r \in Runs : Trigger(r)
    \/ \E r \in Runs : RunStart(r)
    \/ \E r \in Runs : FetchActivities(r)
    \/ \E r \in Runs : FetchGear(r)
    \/ \E r \in Runs : SetTotal(r)
    \/ \E r \in Runs : StartActivityBatch(r)
    \/ \E r \in Runs, j \in Items : ItemFetch(r, j)
    \/ \E r \in Runs, j \in Items : ItemPost(r, j)
    \/ \E r \in Runs : FoldActivityBatch(r)
    \/ \E r \in Runs : StartGearBatch(r)
    \/ \E r \in Runs : Final(r)
    \/ \E r \in Runs : Except(r)

\* Trigger requests of one user that the rate limiter accepts, with the
\* status store available throughout: no store operation raises.
InitAvailable ==
    /\ InitRate /\ InitSync
    /\ activityStore = [i \in Items |-> NoActivity]
    /\ taskCounter = [i \in Items |-> 0]
    /\ batchStore = [r \in Requests |-> NoBatch]
    /\ upl = [r \in Requests |-> IdleUpload]
    /\ outcome = [i \in Items |-> [k \in 1..NUM_TASKS |-> "none"]]
    /\ faults = 0
    /\ requests = MaxLimit
    /\ period = 1
    /\ limits = LiveScope

\* The event loop resumes every background run whose awaited call has
\* returned or raised; every provider and ingestion call does one of the
\* two (aiohttp's timeout, the retry bound).
SyncFairness == \A r \in Runs : WF_vars(RunStep(r))

SpecLive == InitAvailable /\ [][NextLive]_vars /\ SyncFairness

\* fetch_gear over every gear response of at most MaxGearEntries entries.
InitGear ==
    /\ InitRate /\ InitIngest
    /\ syncStore = NoSync
    /\ lastWrite = NoWrite
    /\ run = [r \in Runs |-> IdleRun]
    /\ lastCall = NoCall
    /\ poll = NoPoll
    /\ requests = 1
    /\ period = 1
    /\ limits = DefaultScope
    /\ \E n \in 0..MaxGearEntries :
          \E data \in [1..n -> GearEntries] :
              gearCall = [data |-> data, out |-> <<>>, done |-> FALSE]

NextGear == FetchGearMap

SpecGear == InitGear /\ [][NextGear]_vars

(***************************************************************************)
(* Properties                                                              *)
(***************************************************************************)
SyncCountsWritten == {"total", "activity_batch", "gear_batch", "final"}

\* C1: a run that processed all of its batches and wrote its final status
\* leaves a record with processed_items + failed_items = total_items.
C1_FinalCountsAddUp ==
    lastWrite.kind = "final" =>
        syncStore.processed_activities + syncStore.failed_activities
            = syncStore.total_activities

\* C2: every record a run stores from the write that sets the total up to
\* its terminal write has processed_items + failed_items <= total_items.
C2_CountsWithinTotal ==
    lastWrite.kind \in SyncCountsWritten =>
        syncStore.processed_activities + syncStore.failed_activities
            <= syncStore.total_activities

\* C3: an activity whose payload the ingestion boundary rejects as
\* unparseable is counted as failed, not as processed; with 3 activities,
\* 1 gear item and exactly one corrupt payload the run ends with total 4,
\* processed 3, failed 1, status FAILED, and the corrupt item's
\* ActivityStatus is FAILED with completed_tasks 0.
C3_CorruptPayloadCountsAsFailed ==
    \A r \in Runs :
        (lastWrite.by = r /\ lastWrite.kind = "final") =>
            /\ syncStore.failed_activities >= Cardinality(run[r].corrupt)
            /\ (run[r].nA = 3 /\ run[r].nG = 1 /\ run[r].lost = 0
                  /\ Cardinality(run[r].corrupt) = 1) =>
                 /\ syncStore.total_activities = 4
                 /\ syncStore.processed_activities = 3
                 /\ syncStore.failed_activities = 1
                 /\ syncStore.status = "failed"
                 /\ \A i \in run[r].corrupt :
                      /\ activityStore[i].status = "failed"
                      /\ activityStore[i].completed_tasks = 0

ItemTasks(i) == {k \in 1..NUM_TASKS : outcome[i][k] # "none"}

\* No wrapper of a sub-task of item i is queued or running.
ItemSettled(i) ==
    \A r \in Requests :
        upl[r].pc \in {"loop", "tasks"} =>
            \A n \in DOMAIN upl[r].queue : upl[r].queue[n][1] # i

\* C4: a stored ActivityStatus with status COMPLETED has
\* completed_tasks = total_tasks, every sub-task of the submission
\* succeeded and none reported a failure.
C4_CompletedMeansAllTasksDone ==
    \A i \in Items :
        activityStore[i].status = "completed" =>
            /\ activityStore[i].completed_tasks = NUM_TASKS
            /\ \A k \in 1..NUM_TASKS : outcome[i][k] = "ok"

\* C5: within one submission, once the stored status of an item is FAILED
\* no later write of a sub-task wrapper changes it.
C5_FailedIsTerminal ==
    [][\A i \in Items :
          activityStore[i].status = "failed" => activityStore'[i].status = "failed"]_vars

\* C5 witness: a sub-task raised, FAILED was stored, and a later sub-task of
\* the same submission ran its wrapper.
C5_Witness ==
    \E i \in Items :
        /\ activityStore[i].status = "failed"
        /\ outcome[i][1] = "raised"
        /\ outcome[i][2] = "skipped"
        /\ outcome[i][3] = "skipped"

\* C6: an accepted item whose three sub-tasks all succeeded has stored
\* status COMPLETED once its wrappers have returned, the promotion being
\* made when the task counter reaches total_tasks.
C6_AllSucceededMeansCompleted ==
    \A i \in Items :
        (ItemSettled(i) /\ \A k \in 1..NUM_TASKS : outcome[i][k] = "ok") =>
            /\ activityStore[i].status = "completed"
            /\ taskCounter[i] = NUM_TASKS

\* The window of length `period` that a time falls into.
PeriodWindow(t) == t \div period

\* Call n read the clock and ran its pipeline within window w.
FallsInto(n, w) ==
    /\ PeriodWindow(calls[n].t) = w
    /\ PeriodWindow(calls[n].at) = w

\* The position of call n among the calls of window w, in execution order.
RankInWindow(n, w) == Cardinality({m \in 1..n : FallsInto(m, w)})

\* C7: among the acquire calls that fall into the same window of length
\* RATE_LIMIT_PERIOD the first RATE_LIMIT_REQUESTS return true and the next
\* returns false; the first call of the next window returns true.
C7_WindowLimit ==
    \A n \in 1..Len(calls) :
        LET w == PeriodWindow(calls[n].t)
        IN FallsInto(n, w) => (calls[n].ok <=> RankInWindow(n, w) <= requests)

\* C8: two acquire calls that run concurrently in the same window with
\* limit 1: exactly one returns true.
C8_ConcurrentLimitOne ==
    requests = 1 =>
        \A a, b \in 1..Len(calls) :
            LET w == PeriodWindow(calls[a].t)
            IN (/\ a < b
                /\ calls[b].id \in calls[a].seen
                /\ FallsInto(a, w)
                /\ FallsInto(b, w)
                /\ RankInWindow(a, w) = 1
                /\ RankInWindow(b, w) = 2) =>
                   (calls[a].ok /\ ~calls[b].ok)

\* C9: a provider call gives up only after exactly MAX_RETRIES failed
\* attempts, and returns the result of the first attempt that succeeds, up
\* to the MAX_RETRIES-th.
C9_RetryPolicy ==
    lastCall.fn # "none" =>
        /\ lastCall.tries \in 1..MAX_RETRIES
        /\ lastCall.result = "client_error" => lastCall.tries = MAX_RETRIES

\* C9 witness: a call that failed MAX_RETRIES - 1 times and then succeeded.
C9_Witness ==
    /\ lastCall.fn = "fetch_fit_file"
    /\ lastCall.tries = MAX_RETRIES
    /\ lastCall.result = "ok"

StatusRank(st) ==
    CASE st = "absent" -> 0
      [] st = "pending" -> 1
      [] st = "in_progress" -> 2
      [] OTHER -> 3

\* C10: the stored sync status only moves along
\* PENDING -> IN_PROGRESS -> {COMPLETED, FAILED}, or back to PENDING.
C10_StatusMonotonic ==
    [][syncStore'.status # syncStore.status =>
          \/ syncStore'.status = "pending"
          \/ StatusRank(syncStore.status) < StatusRank(syncStore'.status)]_vars

\* C11: the write that follows the last batch stores COMPLETED exactly when
\* no item of the run failed, FAILED otherwise, and carries the run's
\* counts: the items that returned false as failed, all others as processed.
C11_FinalVerdict ==
    \A r \in Runs :
        (lastWrite.by = r /\ lastWrite.kind = "final") =>
            /\ syncStore.status = (IF run[r].lost = 0 THEN "completed" ELSE "failed")
            /\ syncStore.failed_activities = run[r].lost
            /\ syncStore.processed_activities = run[r].nA + run[r].nG - run[r].lost

\* C11 witness: a partial success, reported as FAILED with both counts.
C11_Witness ==
    /\ lastWrite.kind = "final"
    /\ syncStore.status = "failed"
    /\ syncStore.processed_activities > 0
    /\ syncStore.failed_activities > 0

\* C12: when start_sync re-raises an exception that escaped the body of the
\* run, the stored status is FAILED and error_message is the exception's
\* text.
C12_FailedBeforeReraise ==
    \A r \in Runs :
        (run[r].result = "raised" /\ lastWrite.by \in {0, r}) =>
            /\ syncStore.status = "failed"
            /\ syncStore.error_message = run[r].err

\* C13: a trigger request that the rate limiter rejects is answered with
\* 429, leaves the stored SyncStatus as it was and schedules no run.
C13_RejectedTriggerMutatesNothing ==
    [][\A r \in Runs :
          run'[r].code = 429 =>
              /\ run'[r].pc = "done"
              /\ run'[r].result = "none"
              /\ run[r].code # 429 =>
                    /\ ~Allowed(IncrResult(WindowKey(clock)))
                    /\ syncStore' = syncStore
                    /\ lastWrite' = lastWrite]_vars

\* C13 witness: a request rejected while an earlier run's record is stored.
C13_Witness ==
    \E r \in Runs :
        /\ run[r].code = 429
        /\ syncStore.status \in {"completed", "failed"}

\* The latest poll was answered from the store.
Answered(resp) == resp.code \notin {0, 500}

\* C14: a poll of the sync status of a user who has no stored record is
\* answered with 404.
C14_PollUnknownIs404 ==
    (Answered(poll.last) /\ poll.last.seen.status = "absent") =>
        poll.last.code = 404

\* C15: get_status returns PENDING with zero counters and no error_message
\* when no record is stored, and otherwise the stored status, counters,
\* error_message and last_updated.
C15_GetStatusReturnsStored ==
    Answered(poll.last) =>
        LET body == poll.last.body
            seen == poll.last.seen
        IN IF seen.status = "absent"
           THEN /\ body.status = "pending"
                /\ body.total_activities = 0
                /\ body.processed_activities = 0
                /\ body.failed_activities = 0
                /\ body.error_message = "none"
           ELSE /\ body.status = seen.status
                /\ body.total_activities = seen.total_activities
                /\ body.processed_activities = seen.processed_activities
                /\ body.failed_activities = seen.failed_activities
                /\ body.error_message = seen.error_message
                /\ body.last_updated = seen.last_updated

\* C15 witness: a poll that found the record of a failed run, written
\* before the time of the poll.
C15_Witness ==
    /\ Answered(poll.last)
    /\ poll.last.seen.status = "failed"
    /\ poll.last.seen.error_message # "none"
    /\ poll.last.body.last_updated < clock
    /\ poll.prev.code = 200
    /\ poll.prev.seen.status = "absent"

\* C16: two consecutive polls between which the stored value did not change
\* return the same output, last_updated included, with or without a record.
C16_PollIdempotent ==
    (/\ Answered(poll.prev)
     /\ Answered(poll.last)
     /\ poll.prev.seen = poll.last.seen) =>
        /\ poll.prev.code = poll.last.code
        /\ poll.prev.body = poll.last.body

\* Sub-task k of item i was handed to the background runner of request r.
Scheduled(r, i, k) ==
    \/ outcome[i][k] # "none"
    \/ \E n \in DOMAIN upl[r].queue : upl[r].queue[n] = <<i, k>>

\* C17: an item whose payload is not a readable FIT file gets a stored
\* record FAILED with completed_tasks 0 and the error message of the
\* invalid file, none of its sub-tasks is scheduled or run, and the other
\* items of the request are still processed.
C17_InvalidItemFailsAlone ==
    \A r \in Requests :
        \A n \in DOMAIN upl[r].items :
            LET i == upl[r].items[n]
            IN /\ (i \in upl[r].corrupt /\ upl[r].idx > n) =>
                     /\ activityStore[i].status = "failed"
                     /\ activityStore[i].completed_tasks = 0
                     /\ activityStore[i].error_message = "Invalid FIT file"
                     /\ taskCounter[i] = 0
                     /\ \A k \in 1..NUM_TASKS : ~Scheduled(r, i, k)
               /\ (i \notin upl[r].corrupt /\ upl[r].code = 200) =>
                     /\ activityStore[i].status # "absent"
                     /\ faults = MaxStoreFaults =>
                           \A k \in 1..NUM_TASKS : Scheduled(r, i, k)

\* C17 witness: a request with an invalid and a valid item; the valid
\* item's sub-tasks have all run.
C17_Witness ==
    \E r \in Requests :
        \E i, j \in SeqRange(upl[r].items) :
            /\ i \in upl[r].corrupt
            /\ j \notin upl[r].corrupt
            /\ i < j
            /\ activityStore[i].status = "failed"
            /\ \A k \in 1..NUM_TASKS : outcome[j][k] = "ok"

\* C18: a submission that contains an invalid payload is rejected with 422
\* and no sub-task of any of its items is scheduled.
C18_InvalidPayloadRejectsRequest ==
    \A r \in Requests :
        (upl[r].corrupt # {} /\ upl[r].code \notin {0, 500}) =>
            /\ upl[r].code = 422
            /\ \A i \in SeqRange(upl[r].items), k \in 1..NUM_TASKS :
                  ~Scheduled(r, i, k)

\* C19: a submission whose files and metadata entries differ in number, or
\* with a file not named *.fit, is rejected with 422 and has no effect: no
\* batch record, no activity record, no sub-task.
C19_ShapeRejectedWithoutEffect ==
    [][\A r \in Requests :
          /\ upl'[r].shape \in {"mismatch", "badtype"} =>
                /\ upl'[r].code = 422
                /\ upl'[r].pc = "done"
                /\ upl'[r].queue = <<>>
                /\ batchStore'[r] = NoBatch
          /\ (upl[r].code # 422 /\ upl'[r].code = 422) =>
                /\ upl'[r].shape \in {"mismatch", "badtype"}
                /\ activityStore' = activityStore
                /\ taskCounter' = taskCounter
                /\ batchStore' = batchStore]_vars

\* C19 witness: a request rejected for its shape.
C19_Witness ==
    \E r \in Requests :
        /\ upl[r].shape = "mismatch"
        /\ upl[r].code = 422

\* C20: a poll of the status of an item that was submitted and accepted
\* returns the status and task counter kept for it; 404 is returned only
\* for ids that were never submitted.
C20_PollItemReturnsStatus ==
    (Answered(poll.last) /\ poll.last.seen.status # "absent") =>
        poll.last.code = 200

\* The wrapper of sub-task k of item i is not the one the runner executes.
SubTaskReturned(i, k) ==
    \A r \in Requests :
        ~(upl[r].pc = "tasks" /\ upl[r].queue # <<>> /\ upl[r].queue[1] = <<i, k>>)

\* C21: when a sub-task of an accepted item raises, the item's stored status
\* ends as FAILED with the error naming that sub-task, and every sub-task of
\* the submission that starts afterwards is skipped: it is not executed and
\* writes nothing to the status.
C21_RaisedSubTaskFailsItem ==
    \A i \in Items, k \in 1..NUM_TASKS :
        (outcome[i][k] = "raised" /\ SubTaskReturned(i, k)) =>
            /\ activityStore[i].status = "failed"
            /\ activityStore[i].error = ErrorIn(k)
            /\ \A k2 \in (k + 1)..NUM_TASKS : outcome[i][k2] \in {"none", "skipped"}


\* C22: a failing storage sub-task of item A changes only A's
\* ActivityStatus: the record, task counter and sub-task outcomes of every
\* other item B stay as they were, B's sub-tasks stay scheduled and run, and
\* B still reaches COMPLETED when they succeed.
C22_FailureStaysWithItem ==
    [][\A r \in Requests :
          /\ (upl[r].pc = "tasks" /\ upl[r].tpc = "fail" /\ upl'[r] # upl[r]) =>
                LET a == upl[r].queue[1][1]
                IN /\ \A b \in Items \ {a} :
                         /\ activityStore'[b] = activityStore[b]
                         /\ taskCounter'[b] = taskCounter[b]
                         /\ outcome'[b] = outcome[b]
                   /\ batchStore' = batchStore
                   /\ upl'[r].queue = Tail(upl[r].queue)
          /\ \A b \in Items, k \in 1..NUM_TASKS :
                outcome'[b][k] = "skipped" =>
                    \E k1 \in 1..(k - 1) : outcome'[b][k1] \in {"raised", "aborted"}
          /\ \A b \in SeqRange(upl'[r].items) \ upl'[r].corrupt :
                (upl'[r].pc = "done" /\ upl'[r].code = 200
                   /\ faults' = MaxStoreFaults) =>
                     \A k \in 1..NUM_TASKS : outcome'[b][k] # "none"]_vars

\* C22 witness: item A failed in its first sub-task, item B of the same
\* request ran all three sub-tasks and is COMPLETED.
C22_Witness ==
    \E r \in Requests :
        \E a, b \in SeqRange(upl[r].items) :
            /\ a < b
            /\ outcome[a][1] = "raised"
            /\ activityStore[a].status = "failed"
            /\ \A k \in 1..NUM_TASKS : outcome[b][k] = "ok"
            /\ activityStore[b].status = "completed"
            /\ activityStore[b].error = "none"


\* C23: a failure of the write of the batch record or of an item's initial
\* status record aborts the submission with 500 at that write: the failed
\* write stores nothing, no later status write of the request follows and
\* no sub-task of the request runs afterwards.
C23_StoreFailureAbortsSubmission ==
    [][\A r \in Requests :
          /\ (/\ upl[r].pc \in {"new", "loop"}
              /\ upl'[r] # upl[r]
              /\ faults' = faults - 1
              /\ activityStore' = activityStore
              /\ batchStore' = batchStore) =>
                /\ upl'[r].code = 500
                /\ upl'[r].pc = "done"
                /\ upl'[r].queue = <<>>
          /\ upl[r].code = 500 =>
                /\ upl'[r] = upl[r]
                /\ \A i \in SeqRange(upl[r].items) :
                      /\ activityStore'[i] = activityStore[i]
                      /\ taskCounter'[i] = taskCounter[i]
                      /\ outcome'[i] = outcome[i]
                /\ batchStore'[r] = batchStore[r]]_vars

\* C23 witness: the first item of a request was accepted and its sub-tasks
\* added, the write of the second item's initial record failed.
C23_Witness ==
    \E r \in Requests :
        /\ upl[r].code = 500
        /\ Len(upl[r].items) = 2
        /\ upl[r].idx = 2
        /\ activityStore[upl[r].items[1]].status = "in_progress"
        /\ activityStore[upl[r].items[2]].status = "absent"
        /\ \A i \in Items, k \in 1..NUM_TASKS : outcome[i][k] = "none"


\* The value update_status takes for an omitted counter.
Given(arg, stored) == IF arg # None THEN arg ELSE stored

\* C24: a call of update_status writes the user's status record once: the
\* written record has the given status, each counter equal to the given
\* value when one is passed and to the value stored before the call when it
\* is omitted, and the record returned equals the record written.
C24_UpdateStatusWritesGiven ==
    [][lastWrite' # lastWrite =>
          LET args == lastWrite'.args
              current == GetStatus
          IN /\ syncStore'.status = args.status
             /\ syncStore'.total_activities =
                    Given(args.total, current.total_activities)
             /\ syncStore'.processed_activities =
                    Given(args.processed, current.processed_activities)
             /\ syncStore'.failed_activities =
                    Given(args.failed, current.failed_activities)
             /\ lastWrite'.returned = syncStore']_vars

\* C24 witness: a call that omits the counters while the stored record
\* carries counts of the batches folded so far.
C24_Witness ==
    /\ lastWrite.kind = "except"
    /\ lastWrite.args.processed = None
    /\ lastWrite.args.total = None
    /\ syncStore.status = "failed"
    /\ syncStore.total_activities > 0
    /\ syncStore.processed_activities > 0


\* C25: when the first item of a run starts processing, the stored record
\* has total_items = len(activities) + len(gear), the lengths of the lists
\* the two fetches returned.
C25_TotalSetBeforeProcessing ==
    \A r \in Runs :
        (lastWrite.by = r /\ lastWrite.kind = "total") =>
            syncStore.total_activities = run[r].nA + run[r].nG


\* C26: the first status write of every sync run stores IN_PROGRESS with
\* total_items, processed_items and failed_items all 0, whatever counters a
\* previous run of the same user left in the store.
C26_RunStartsFromZero ==
    lastWrite.kind = "start" =>
        /\ syncStore.status = "in_progress"
        /\ syncStore.total_activities = 0
        /\ syncStore.processed_activities = 0
        /\ syncStore.failed_activities = 0


\* The sub-tasks of item i that succeeded and whose wrapper has returned.
CompletedSubTasks(i) ==
    {k \in 1..NUM_TASKS : outcome[i][k] = "ok" /\ SubTaskReturned(i, k)}

\* C27: the completed_tasks field of an item's stored ActivityStatus equals
\* the number of the submission's sub-tasks that have completed successfully
\* so far, and never exceeds total_tasks.
C27_CompletedTasksCounts ==
    \A i \in Items :
        activityStore[i].status # "absent" =>
            /\ activityStore[i].completed_tasks = Cardinality(CompletedSubTasks(i))
            /\ activityStore[i].completed_tasks <= NUM_TASKS


\* C28: a provider call answered with a non-retriable client error (HTTP 4xx
\* other than 429) is attempted exactly once and the error is surfaced at
\* once.
C28_ClientErrorNotRetried ==
    lastCall.result = "http_4xx" => lastCall.tries = 1


\* Run r has just written its terminal status.
TerminalWritten(r) ==
    /\ lastWrite.by = r
    /\ lastWrite.kind \in {"final", "except"}
    /\ syncStore.status \in {"completed", "failed"}
    /\ run[r].pc = "done"

\* C29: every sync run that starts eventually ends with the stored status
\* written as COMPLETED or FAILED by that run, provided the provider and
\* ingestion calls return or fail within their retries and the status store
\* is available; a trigger that arrives mid-flight does not cancel the run.
C29_RunEndsTerminal ==
    \A r \in Runs : (run[r].pc = "queued") ~> TerminalWritten(r)

\* C29 witness: a run has ended with its terminal write while the run of a
\* trigger that arrived before that write is still in flight.
C29_Witness ==
    \E r, q \in Runs :
        /\ r < q
        /\ TerminalWritten(r)
        /\ run[q].code = 200
        /\ run[q].pc \notin {"idle", "done"}


\* C30: when a status-store operation fails during a sync run, the run does
\* not end leaving the stored status PENDING or IN_PROGRESS with no later
\* write that resolves it.
C30_NoStaleStatusAfterRun ==
    \A r \in Runs :
        (/\ run[r].code = 200
         /\ run[r].pc = "done"
         /\ \A q \in Runs \ {r} : run[q].pc \in {"idle", "done"}) =>
            syncStore.status \notin {"pending", "in_progress"}


\* C31: when a status-store operation fails while a wrapper records a
\* sub-task's completion or failure, the item does not stay PENDING or
\* IN_PROGRESS once all of its sub-tasks have finished: it reaches COMPLETED
\* or FAILED.
C31_SettledItemIsTerminal ==
    \A r \in Requests :
        \A i \in SeqRange(upl[r].items) :
            (/\ upl[r].pc = "done"
             /\ upl[r].code = 200
             /\ \A k \in 1..NUM_TASKS : outcome[i][k] # "none") =>
                activityStore[i].status \in {"completed", "failed"}


\* C32: within a batch every item is attempted whether or not a sibling
\* fails; the failure of an item does not end the run nor keep later
\* batches from being processed, it only adds 1 to the failed count.
C32_ItemFailureStaysLocal ==
    [][\A r \in Runs :
          /\ run'[r].lost = run[r].lost + 1 =>
                /\ run'[r].pc = run[r].pc
                /\ DOMAIN run'[r].slots = DOMAIN run[r].slots
                /\ Cardinality({j \in DOMAIN run[r].slots :
                                   run'[r].slots[j] # run[r].slots[j]}) = 1
                /\ run'[r].processed = run[r].processed
                /\ run'[r].failed = run[r].failed
                /\ syncStore' = syncStore
          /\ (run'[r].slots = <<>> /\ run[r].slots # <<>>) =>
                /\ BatchSettled(run[r].slots)
                /\ run'[r].failed = run[r].failed + BatchFailed(run[r].slots)
                /\ run'[r].processed = run[r].processed + BatchProcessed(run[r].slots)
          /\ run'[r].pc = "final" =>
                /\ run'[r].failed = run'[r].lost
                /\ run'[r].processed = run'[r].nA + run'[r].nG - run'[r].lost]_vars

\* C32 witness: a run of two activity batches ended after the first item of
\* the first batch failed and the item of the second batch was forwarded.
C32_Witness ==
    \E r \in Runs :
        /\ lastWrite.by = r
        /\ lastWrite.kind = "final"
        /\ run[r].nA = SYNC_BATCH_SIZE + 1
        /\ activityStore[1].status = "absent"
        /\ activityStore[SYNC_BATCH_SIZE + 1].status = "in_progress"
        /\ syncStore.failed_activities = 1


\* C33: within one run, the folded counters of a batch are stored before
\* any item of the next batch begins (all activity batches before any gear
\* batch), and the stored processed_items never decreases between the write
\* that sets total_items and the run's terminal write.
C33_BatchesFoldInOrder ==
    [][\A r \in Runs :
          /\ (run[r].slots = <<>> /\ run'[r].slots # <<>>) =>
                /\ lastWrite.by = r
                /\ lastWrite.kind \in {"total", "activity_batch", "gear_batch"}
                /\ syncStore.processed_activities = run[r].processed
                /\ syncStore.failed_activities = run[r].failed
                /\ run[r].processed + run[r].failed = run[r].base
                       + (IF run[r].pc = "gear" THEN run[r].nA ELSE 0)
                /\ DOMAIN run'[r].slots =
                       BatchOf(run[r].base,
                               IF run[r].pc = "gear" THEN run[r].nG ELSE run[r].nA)
          /\ (lastWrite.by = r /\ lastWrite.kind \in SyncCountsWritten) =>
                syncStore'.processed_activities >= syncStore.processed_activities]_vars

\* C33 witness: the second activity batch is in flight and the store holds
\* the counters folded from the first.
C33_Witness ==
    \E r \in Runs :
        /\ run[r].pc = "activities"
        /\ run[r].base = SYNC_BATCH_SIZE
        /\ run[r].slots # <<>>
        /\ lastWrite.kind = "activity_batch"
        /\ syncStore.processed_activities + syncStore.failed_activities = SYNC_BATCH_SIZE
        /\ syncStore.processed_activities > 0


\* The items of run r whose payload fetch or forward call is in progress.
InFlight(r) == {j \in DOMAIN run[r].slots : run[r].slots[j].st \in {"fetch", "post"}}

\* C34: at any moment at most batch_size items of one sync run are in
\* flight, and items of two different batches of the run are never in
\* flight at the same time.
C34_BatchSizeIsCeiling ==
    \A r \in Runs :
        /\ Cardinality(InFlight(r)) <= SYNC_BATCH_SIZE
        /\ \A j \in DOMAIN run[r].slots :
              /\ run[r].base < j
              /\ j <= run[r].base + SYNC_BATCH_SIZE
        /\ InFlight(r) # {} => run[r].pc \in {"activities", "gear"}

\* C34 witness: a run with more activities than one batch holds has a full
\* batch in flight.
C34_Witness ==
    \E r \in Runs :
        /\ run[r].nA > SYNC_BATCH_SIZE
        /\ Cardinality(InFlight(r)) = SYNC_BATCH_SIZE


\* C35: when the store is unavailable during a trigger request, while the
\* rate-limit counter is updated or while the initial PENDING status is
\* written, the request fails with an error returned to the caller, no
\* status is written and no sync run is scheduled.
C35_TriggerFailsWithStore ==
    [][\A r \in Runs :
          /\ (run[r].pc = "idle" /\ run'[r].pc # "idle" /\ faults' < faults) =>
                /\ run'[r].code = 500
                /\ run'[r].pc = "done"
                /\ syncStore' = syncStore
                /\ lastWrite' = lastWrite
          /\ run[r].code = 500 => run'[r] = run[r]]_vars

\* C35 witness: the rate limiter counted the request and the write of the
\* PENDING record failed.
C35_Witness ==
    \E r \in Runs :
        /\ run[r].code = 500
        /\ run[r].pc = "done"
        /\ windows[WindowKey(clock)].count = 1
        /\ syncStore.status = "absent"


\* The provider marks the entry as retired, or as a component.
MarkedRetired(e) == e.retired \in {"true_bool", "true_str"}
MarkedComponent(e) == e.component = "true_bool"

\* C36: the list fetch_gear returns contains no entry the provider marks as
\* retired, as boolean true or as the string "true", and no component
\* entry, and contains every other entry exactly once, in provider order.
C36_GearFilter ==
    gearCall.done =>
        LET data == gearCall.data
            out == gearCall.out
            kept == {n \in DOMAIN data :
                        ~MarkedRetired(data[n]) /\ ~MarkedComponent(data[n])}
        IN /\ SeqRange(out) = kept
           /\ Len(out) = Cardinality(kept)
           /\ \A a, b \in DOMAIN out : a < b => out[a] < out[b]


\* The run has processed all of its batches.
AllBatchesDone(r) ==
    \/ run[r].pc = "final"
    \/ run[r].pc = "done" /\ run[r].result \in {"completed", "failed"}

\* C37: when a run has processed all of its batches, its accumulated
\* processed + failed equals len(activities) + len(gear): every fetched item
\* is attempted once and counted once, as processed or as failed.
C37_EveryItemCountedOnce ==
    \A r \in Runs :
        /\ AllBatchesDone(r) =>
              run[r].processed + run[r].failed = run[r].nA + run[r].nG
        /\ (run[r].pc = "activities" /\ run[r].slots = <<>>) =>
              /\ run[r].processed + run[r].failed = run[r].base
              /\ run[r].base <= run[r].nA
        /\ (run[r].pc = "gear" /\ run[r].slots = <<>>) =>
              /\ run[r].processed + run[r].failed = run[r].nA + run[r].base
              /\ run[r].base <= run[r].nG
        /\ (run[r].pc \in {"activities", "gear"} /\ run[r].slots # <<>>) =>
              DOMAIN run[r].slots =
                  BatchOf(run[r].base,
                          IF run[r].pc = "gear" THEN run[r].nG ELSE run[r].nA)

\* C37 witness: a run over two activity batches and a gear batch has
\* processed them all, with items of both kinds of result.
C37_Witness ==
    \E r \in Runs :
        /\ run[r].pc = "final"
        /\ run[r].nA = SYNC_BATCH_SIZE + 1
        /\ run[r].nG = 1
        /\ run[r].processed > 0
        /\ run[r].failed > 0


\* C38: in every stored SyncStatus record a non-null error_message implies
\* status FAILED; every write stores the error_message it is given, so a
\* later write without an error clears the message of an earlier failure.
C38_ErrorMessageOnlyWhenFailed ==
    [][/\ syncStore'.error_message # "none" => syncStore'.status = "failed"
       /\ lastWrite' # lastWrite =>
             syncStore'.error_message = lastWrite'.args.error]_vars

\* C38 witness: a run failed and its handler stored the message, the user
\* triggered again and the PENDING record of the new request carries no
\* message.
C38_Witness ==
    \E r, q \in Runs :
        /\ r < q
        /\ run[r].result = "raised"
        /\ run[r].err # "none"
        /\ faults = 0
        /\ run[q].pc = "queued"
        /\ lastWrite.kind = "trigger"
        /\ syncStore.status = "pending"
        /\ syncStore.error_message = "none"


\* The acquire calls the live counter of window key k has seen: the calls
\* for k from the one that created the counter (INCR returned 1) onwards.
LifetimeCalls(k) ==
    LET mine == {n \in 1..Len(calls) : calls[n].key = k}
        created == {n \in mine : calls[n].count = 1}
    IN IF created = {}
       THEN mine
       ELSE {n \in mine : \E c \in created :
                 /\ \A m \in created : m <= c
                 /\ n >= c}

C40_BatchRecordFrozen ==
    [][\A r \in Requests :
          batchStore[r] # NoBatch =>
              /\ batchStore'[r] = batchStore[r]
              /\ batchStore[r] = BatchRecord(Len(upl[r].items))]_vars

\* C40 witness: an upload of two items is over, one payload was rejected,
\* a sub-task of the other item completed and a later one failed, and the
\* batch record is the one written at submission.
C40_Witness ==
    \E r \in Requests :
        /\ upl[r].pc = "done"
        /\ upl[r].code = 200
        /\ batchStore[r] = BatchRecord(2)
        /\ \E i, j \in SeqRange(upl[r].items) :
              /\ i \in upl[r].corrupt
              /\ activityStore[i].status = "failed"
              /\ j \notin upl[r].corrupt
              /\ \E k, l \in 1..NUM_TASKS :
                    /\ outcome[j][k] = "ok"
                    /\ outcome[j][l] = "raised"


====
